---- MODULE Spec2Model ----
(***************************************************************************)
(* Dispatch and acceptance core of src/app.py: the lawyers and             *)
(* case_requests relations, the dispatch_request and accept_offer          *)
(* handlers as interleaved steps (one step per storage statement or        *)
(* socket emission), and the events they emit to Socket.IO rooms.          *)
(***************************************************************************)
EXTENDS Integers, Sequences, FiniteSets, TLC

\* ---------------------------------------------------------------- bounds
MaxCalls == 2        \* HTTP calls handled in one behaviour
NumLawyers == 2      \* rows of lawyers in Spec
NumRanked == 12      \* rows of lawyers in SpecRank (more than the LIMIT)
MaxToggle == 3       \* lawyers whose presence is toggled in SpecRank
MaxClock == 1        \* ticks of the wall clock (NOW())
MaxConns == 2        \* Socket.IO connections (sids)
MaxIdentify == 2     \* identify events held by the open connections

\* ------------------------------------------------------ program constants
NULL == -1           \* SQL NULL / Python None in an integer column
TopK == 10           \* LIMIT 10
FeeEstimate == 2000  \* 'fee_estimate': 2000
LAWYER_ROOM_PREFIX == "lawyer_"
CLIENT_ROOM_PREFIX == "client_"

Calls == 1..MaxCalls
RankCalls == {1}
RoomCalls == {1}
Conns == 1..MaxConns

\* ------------------------------------------------------------- the tables
\* lawyers.user_id differs from lawyers.id
UserIdOf(i) == 100 + i
\* lawyers.rating is nullable; rows 2k and 2k+1 share a rating
RatingOf(i) == IF i = 1 THEN NULL ELSE i \div 2

LawyerRow(i, online, active) ==
    [user_id |-> UserIdOf(i), rating |-> RatingOf(i),
     is_online |-> online, last_active |-> active]

\* a row as INSERT INTO case_requests (user_id, case_type, ...) leaves it:
\* status DEFAULT 'searching', assigned_lawyer NULL
NewCaseRow(client_id, case_type) ==
    [user_id |-> client_id, case_type |-> case_type,
     status |-> "searching", assigned_lawyer |-> NULL]

\* ------------------------------------------------------------ the inputs
\* body.get(...) of an absent key is None; "" stands for an absent or empty
\* case_type, both falsy
DispatchBodies ==
    {[client_id |-> 7, case_type |-> "civil"],
     [client_id |-> NULL, case_type |-> "civil"],
     [client_id |-> 7, case_type |-> ""]}
\* the user ids of the lawyers of Spec, one that matches no row, and None
LawyerUserIds == {NULL} \cup {UserIdOf(i) : i \in 1..(NumLawyers + 1)}

\* Python truthiness of an integer-or-None / of a string-or-None
Truthy(v) == v # NULL /\ v # 0
TruthyStr(s) == s # ""

VARIABLES
    lawyers,        \* relation lawyers: id -> row
    case_requests,  \* relation case_requests (committed rows): id -> row
    case_seq,       \* last value of the SERIAL sequence of case_requests.id
    now,            \* wall clock
    task,           \* call -> the handler's position and locals
    response,       \* call -> the HTTP response returned
    emitted,        \* socketio.emit calls made so far, with their recipients
    sockets,        \* sid -> connected, rooms joined, identify events received
    mpesa_webhooks, \* relation mpesa_webhooks: the audit rows, in id order
    wallets,        \* relation wallets
    transactions,   \* relation transactions
    ratings         \* relation ratings

vars == <<lawyers, case_requests, case_seq, now, task, response, emitted,
          sockets, mpesa_webhooks, wallets, transactions, ratings>>

\* what the dispatch and accept handlers never touch
ledger == <<mpesa_webhooks, wallets, transactions, ratings>>

\* the ids an accept call may name: every committed case and one id no case has
RequestIds == DOMAIN case_requests \cup {case_seq + 1}

\* JSON values as an event or a request body carries them
JNull == [kind |-> "null", n |-> 0, s |-> ""]
JInt(n) == [kind |-> "int", n |-> n, s |-> ""]
JStr(str) == [kind |-> "str", n |-> 0, s |-> str]
\* the object {"a": n}
JObj(n) == [kind |-> "obj", n |-> n, s |-> ""]
\* the float nan, which json.loads reads from the token NaN
JNaN == [kind |-> "nan", n |-> 0, s |-> ""]

\* Python truthiness of a decoded JSON value
JTruthy(v) ==
    CASE v.kind = "null" -> FALSE
      [] v.kind = "int" -> v.n # 0
      [] OTHER -> v.s # ""

\* a decoded JSON value inside an f-string
JFormat(v) ==
    CASE v.kind = "null" -> "None"
      [] v.kind = "int" -> ToString(v.n)
      [] OTHER -> v.s

NoTask ==
    [op |-> "none", pc |-> "idle",
     client_id |-> NULL, case_type |-> "",
     request_id |-> NULL, lawyer_user_id |-> NULL,
     req_id |-> NULL, candidates |-> <<>>, offered |-> <<>>,
     lawyer_id |-> NULL, res |-> NULL,
     old_status |-> "", old_assigned |-> NULL,
     raw |-> "", data |-> JNull]

NoResponse ==
    [code |-> 0, error |-> "", status |-> "", request_id |-> NULL,
     lawyer_id |-> NULL, offered |-> <<>>,
     result_code |-> NULL, result_desc |-> ""]

ErrorResponse(code, msg) == [NoResponse EXCEPT !.code = code, !.error = msg]

\* str() of an integer or None, as an f-string formats it
PyStr(v) == IF v = NULL THEN "None" ELSE ToString(v)

\* f"{prefix}{id}"
Room(prefix, id) == prefix \o PyStr(id)

\* the connections an emit to a room reaches: its members at that moment
Members(room) ==
    {s \in Conns : sockets[s].status = "open" /\ room \in sockets[s].rooms}

\* a sid before its connection: every sid is used by one connection only
NoSocket == [status |-> "new", rooms |-> {}, ident |-> {}]

\* the identify events the clients send: role and user_id are whatever the
\* sender put in the JSON object
IdentifyData ==
    [role : {"lawyer", "client"},
     user_id : {JNull, JInt(UserIdOf(1)), JInt(7), JStr("None")}]

\* ------------------------------------------------ the candidate query
\* a variant without the WHERE clause
Online_All(lw) == DOMAIN lw

\* WHERE is_online = TRUE
Online(lw) == {i \in DOMAIN lw : lw[i].is_online}

\* a variant with the default NULLS FIRST of a DESC sort
RankBefore_NullsFirst(ra, rb) == rb # NULL /\ (ra = NULL \/ ra > rb)

\* ORDER BY rating DESC NULLS LAST: ra sorts strictly before rb
RankBefore(ra, rb) == ra # NULL /\ (rb = NULL \/ ra > rb)

\* the rows of S no other row of S sorts before
Top(lw, S) == {m \in S : \A n \in S : ~RankBefore(lw[n].rating, lw[m].rating)}

\* every order of S the ORDER BY allows: rows of equal rating come in any
\* order, the statement names no second sort key
RECURSIVE OrderBy(_, _)
OrderBy(lw, S) ==
    IF S = {} THEN {<<>>}
    ELSE UNION {{<<m>> \o t : t \in OrderBy(lw, S \ {m})} : m \in Top(lw, S)}

Limit(s, k) == SubSeq(s, 1, IF Len(s) < k THEN Len(s) ELSE k)

\* SELECT id, name, rating, user_id: the row as fetched
Fetched(lw, i) == [id |-> i, rating |-> lw[i].rating, user_id |-> lw[i].user_id]

SelectCandidates(lw) ==
    {[k \in 1..Len(s) |-> Fetched(lw, s[k])] :
        s \in {Limit(o, TopK) : o \in OrderBy(lw, Online(lw))}}

\* a variant of the lookup without the WHERE clause
LawyersByUserId_Any(lw, uid) == DOMAIN lw

\* SELECT id FROM lawyers WHERE user_id = %s; fetchone(): any matching row
LawyersByUserId(lw, uid) == {i \in DOMAIN lw : lw[i].user_id = uid}

\* a variant whose INSERT is never committed
Inserted_Uncommitted(cases, id, row) == cases

\* the relation with one more committed row
Inserted(cases, id, row) ==
    [i \in DOMAIN cases \cup {id} |-> IF i = id THEN row ELSE cases[i]]

\* ------------------------------------------------------------------ Init
\* the database outlives the process: it starts empty or with one case an
\* earlier run left searching
InitRest ==
    /\ \E n \in 0..1 :
          /\ case_seq = n
          /\ case_requests = [id \in 1..n |-> NewCaseRow(7, "civil")]
    /\ now = 1
    /\ task = [c \in Calls |-> NoTask]
    /\ response = [c \in Calls |-> NoResponse]
    /\ emitted = {}
    /\ sockets = [s \in Conns |-> NoSocket]
    /\ mpesa_webhooks = <<>>
    /\ wallets = <<[user_id |-> 0, role |-> "platform", balance |-> 0],
                   [user_id |-> 7, role |-> "client", balance |-> 0]>>
    /\ transactions = <<>>
    /\ ratings = <<>>

\* lawyers 1..k are online at the start, none to all
Init ==
    /\ \E k \in 0..NumLawyers :
          lawyers = [i \in 1..NumLawyers |-> LawyerRow(i, i <= k, 0)]
    /\ InitRest

\* every lawyer online; rows of equal rating differ in last_active
InitRank ==
    /\ lawyers = [i \in 1..NumRanked |-> LawyerRow(i, TRUE, i % 2)]
    /\ InitRest

\* a call starts only when the calls before it have started
CanStart(c) ==
    /\ task[c].pc = "idle"
    /\ \A d \in Calls : d < c => task[d].pc # "idle"

Finish(c, t, r) ==
    /\ task' = [task EXCEPT ![c] = [t EXCEPT !.pc = "done"]]
    /\ response' = [response EXCEPT ![c] = r]

\* ---------------------------------------------------------- set presence
\* POST /provider/status {provider_id, is_online}: sets the flag, and
\* last_active on the transition to reachable; an absent id is a no-op
SetStatus(id, online) ==
    /\ id \in DOMAIN lawyers
    /\ lawyers[id].is_online # online
    /\ IF online
       THEN /\ now <= MaxClock
            /\ now' = now + 1
            /\ lawyers' = [lawyers EXCEPT ![id].is_online = TRUE,
                                          ![id].last_active = now + 1]
       ELSE /\ now' = now
            /\ lawyers' = [lawyers EXCEPT ![id].is_online = FALSE]
    /\ UNCHANGED <<case_requests, case_seq, task, response, emitted>>
    /\ UNCHANGED <<sockets, ledger>>

\* ------------------------------------------------------ dispatch_request
\* a variant that checks client_id only
DispatchValid_ClientOnly(client_id, case_type) == Truthy(client_id)

DispatchValid(client_id, case_type) == Truthy(client_id) /\ TruthyStr(case_type)

\* request.get_json() and the required-field check; then
\* INSERT ... RETURNING id; fetchone; conn.commit()
DispatchRequest(c, client_id, case_type) ==
    /\ CanStart(c)
    /\ LET t == [NoTask EXCEPT !.op = "dispatch", !.client_id = client_id,
                               !.case_type = case_type]
       IN  IF DispatchValid(client_id, case_type)
           THEN /\ case_seq' = case_seq + 1
                /\ case_requests' = Inserted(case_requests, case_seq + 1,
                                             NewCaseRow(client_id, case_type))
                /\ task' = [task EXCEPT ![c] =
                                [t EXCEPT !.req_id = case_seq + 1, !.pc = "d_select"]]
                /\ UNCHANGED response
           ELSE /\ Finish(c, t, ErrorResponse(400, "client_id and case_type required"))
                /\ UNCHANGED <<case_requests, case_seq>>
    /\ UNCHANGED <<lawyers, now, emitted>>
    /\ UNCHANGED <<sockets, ledger>>

\* the SELECT of candidates; fetchall
DispatchSelect(c) ==
    /\ task[c].pc = "d_select"
    /\ \E rows \in SelectCandidates(lawyers) :
          task' = [task EXCEPT ![c].candidates = rows, ![c].pc = "d_emit"]
    /\ UNCHANGED <<lawyers, case_requests, case_seq, now, response, emitted>>
    /\ UNCHANGED <<sockets, ledger>>

OfferPayload(t) ==
    [request_id |-> t.req_id, client_id |-> t.client_id,
     case_type |-> t.case_type, fee_estimate |-> FeeEstimate]

\* one iteration of the loop over candidates
DispatchEmit(c) ==
    /\ task[c].pc = "d_emit"
    /\ Len(task[c].offered) < Len(task[c].candidates)
    /\ LET k == Len(task[c].offered) + 1
           row == task[c].candidates[k]
       IN  /\ emitted' = emitted \cup
                 {[event |-> "case_offer",
                   room |-> Room(LAWYER_ROOM_PREFIX, row.user_id),
                   to |-> Members(Room(LAWYER_ROOM_PREFIX, row.user_id)),
                   payload |-> OfferPayload(task[c]), by |-> c, k |-> k]}
           /\ task' = [task EXCEPT ![c].offered =
                 Append(@, [lawyer_id |-> row.id, user_id |-> row.user_id])]
    /\ UNCHANGED <<lawyers, case_requests, case_seq, now, response>>
    /\ UNCHANGED <<sockets, ledger>>

\* the loop is over: close and return
DispatchReturn(c) ==
    /\ task[c].pc = "d_emit"
    /\ Len(task[c].offered) = Len(task[c].candidates)
    /\ Finish(c, task[c], [NoResponse EXCEPT !.code = 200,
                              !.request_id = task[c].req_id,
                              !.offered = task[c].offered])
    /\ UNCHANGED <<lawyers, case_requests, case_seq, now, emitted>>
    /\ UNCHANGED <<sockets, ledger>>

\* ---------------------------------------------------------- accept_offer
AcceptValid(lawyer_user_id) == Truthy(lawyer_user_id)

\* a variant that trusts the caller's id and never looks the provider up
AcceptOffer_NoLookup(c, request_id, lawyer_user_id) ==
    /\ CanStart(c)
    /\ LET t == [NoTask EXCEPT !.op = "accept", !.request_id = request_id,
                               !.lawyer_user_id = lawyer_user_id]
       IN  IF ~AcceptValid(lawyer_user_id)
           THEN Finish(c, t, ErrorResponse(400, "lawyer_user_id required"))
           ELSE /\ task' = [task EXCEPT ![c] =
                     [t EXCEPT !.lawyer_id = lawyer_user_id, !.pc = "a_update"]]
                /\ UNCHANGED response
    /\ UNCHANGED <<lawyers, case_requests, case_seq, now, emitted>>
    /\ UNCHANGED <<sockets, ledger>>

\* the required-field check (400), then
\* SELECT id FROM lawyers WHERE user_id = %s; 404 when there is no row
AcceptOffer(c, request_id, lawyer_user_id) ==
    /\ CanStart(c)
    /\ LET t == [NoTask EXCEPT !.op = "accept", !.request_id = request_id,
                               !.lawyer_user_id = lawyer_user_id]
           found == LawyersByUserId(lawyers, lawyer_user_id)
       IN  IF ~AcceptValid(lawyer_user_id)
           THEN Finish(c, t, ErrorResponse(400, "lawyer_user_id required"))
           ELSE IF found = {}
           THEN Finish(c, t, ErrorResponse(404, "lawyer not found"))
           ELSE /\ \E id \in found :
                     task' = [task EXCEPT ![c] =
                                [t EXCEPT !.lawyer_id = id, !.pc = "a_update"]]
                /\ UNCHANGED response
    /\ UNCHANGED <<lawyers, case_requests, case_seq, now, emitted>>
    /\ UNCHANGED <<sockets, ledger>>

\* a variant that records the provider and leaves the status alone
Accepted_AssignOnly(row, lawyer_id) == [row EXCEPT !.assigned_lawyer = lawyer_id]

\* the row the UPDATE writes: SET status='accepted', assigned_lawyer=%s
Accepted(row, lawyer_id) ==
    [row EXCEPT !.status = "accepted", !.assigned_lawyer = lawyer_id]

\* a variant of the UPDATE without its WHERE clause
UpdateMatches_All(cases, request_id) == DOMAIN cases

\* the rows the UPDATE matches: WHERE id=%s
UpdateMatches(cases, request_id) == {id \in DOMAIN cases : id = request_id}

\* UPDATE case_requests ... WHERE id=%s RETURNING user_id; fetchone; commit.
\* old_status, old_assigned observe the row as the statement found it.
AcceptUpdate(c) ==
    /\ task[c].pc = "a_update"
    /\ LET rid == task[c].request_id
           hit == UpdateMatches(case_requests, rid)
       IN  IF hit = {}
           THEN /\ task' = [task EXCEPT ![c].res = NULL, ![c].pc = "a_notify"]
                /\ UNCHANGED case_requests
           ELSE /\ case_requests' = [id \in DOMAIN case_requests |->
                       IF id \in hit
                       THEN Accepted(case_requests[id], task[c].lawyer_id)
                       ELSE case_requests[id]]
                /\ \E first \in hit :
                     task' = [task EXCEPT
                                ![c].res = case_requests[first].user_id,
                                ![c].old_status = case_requests[first].status,
                                ![c].old_assigned = case_requests[first].assigned_lawyer,
                                ![c].pc = "a_notify"]
    /\ UNCHANGED <<lawyers, case_seq, now, response, emitted>>
    /\ UNCHANGED <<sockets, ledger>>

AcceptedPayload(t) == [request_id |-> t.request_id, lawyer_id |-> t.lawyer_id]

\* emit offer_accepted to the client's room if the UPDATE returned a row,
\* then return the success body
AcceptNotify(c) ==
    /\ task[c].pc = "a_notify"
    /\ emitted' = IF Truthy(task[c].res)
                  THEN emitted \cup
                       {[event |-> "offer_accepted",
                         room |-> Room(CLIENT_ROOM_PREFIX, task[c].res),
                         to |-> Members(Room(CLIENT_ROOM_PREFIX, task[c].res)),
                         payload |-> AcceptedPayload(task[c]), by |-> c, k |-> 1]}
                  ELSE emitted
    /\ Finish(c, task[c], [NoResponse EXCEPT !.code = 200, !.status = "accepted",
                              !.request_id = task[c].request_id,
                              !.lawyer_id = task[c].lawyer_id])
    /\ UNCHANGED <<lawyers, case_requests, case_seq, now>>
    /\ UNCHANGED <<sockets, ledger>>

\* ------------------------------------------------------------------ crash
\* the process dies: every call in flight stops where it is, committed rows stay
InFlight(c) == task[c].pc \notin {"idle", "done", "crashed"}

Crash ==
    /\ \E c \in Calls : InFlight(c)
    /\ task' = [c \in Calls |->
                  IF InFlight(c) THEN [task[c] EXCEPT !.pc = "crashed"] ELSE task[c]]
    /\ UNCHANGED <<lawyers, case_requests, case_seq, now, response, emitted>>
    /\ UNCHANGED <<sockets, ledger>>

\* --------------------------------------------------------- Socket.IO
\* a lawyers table in which the last row has no user_id (the column is
\* nullable), every lawyer online
InitRooms ==
    /\ lawyers = [i \in 1..NumLawyers |->
                    [LawyerRow(i, TRUE, 0) EXCEPT
                        !.user_id = IF i = NumLawyers THEN NULL ELSE @]]
    /\ InitRest

\* on_connect: the server registers the sid; the handler only logs
Connect(s) ==
    /\ sockets[s].status = "new"
    /\ sockets' = [sockets EXCEPT ![s].status = "open"]
    /\ UNCHANGED <<lawyers, case_requests, case_seq, now, task, response, emitted>>
    /\ UNCHANGED ledger

IdentifyCount ==
    LET RECURSIVE Sum(_)
        Sum(n) == IF n = 0 THEN 0 ELSE Cardinality(sockets[n].ident) + Sum(n - 1)
    IN Sum(MaxConns)

\* on_identify(data): only a lawyer with a truthy user_id joins a room
Identify(s, data) ==
    /\ sockets[s].status = "open"
    /\ data \notin sockets[s].ident
    /\ IdentifyCount < MaxIdentify
    /\ LET role == data.role
           user_id == data.user_id
           room == LAWYER_ROOM_PREFIX \o JFormat(user_id)
       IN IF role = "lawyer" /\ JTruthy(user_id)
          THEN /\ sockets' = [sockets EXCEPT ![s].rooms = @ \cup {room},
                                              ![s].ident = @ \cup {data}]
               /\ emitted' = emitted \cup
                     {[event |-> "identified", room |-> "", to |-> {s},
                       payload |-> [room |-> room], by |-> 0, k |-> s]}
          ELSE /\ sockets' = [sockets EXCEPT ![s].ident = @ \cup {data}]
               /\ emitted' = emitted
    /\ UNCHANGED <<lawyers, case_requests, case_seq, now, task, response>>
    /\ UNCHANGED ledger

\* on_disconnect: the server takes the sid out of every room; the handler
\* only logs
Disconnect(s) ==
    /\ sockets[s].status = "open"
    /\ sockets' = [sockets EXCEPT ![s].status = "closed", ![s].rooms = {}]
    /\ UNCHANGED <<lawyers, case_requests, case_seq, now, task, response, emitted>>
    /\ UNCHANGED ledger

\* ------------------------------------------------------ storage failures
\* a psycopg2 call that raises leaves the handler; Flask answers 500 and the
\* connection is dropped with whatever it had not committed
ServerError == ErrorResponse(500, "Internal Server Error")

\* get_db_connection, the INSERT or its commit raises: no row; an INSERT
\* that ran has taken its value of the id sequence all the same
DispatchInsertFails(c, client_id, case_type) ==
    /\ CanStart(c)
    /\ DispatchValid(client_id, case_type)
    /\ \E used \in 0..1 : case_seq' = case_seq + used
    /\ Finish(c, [NoTask EXCEPT !.op = "dispatch", !.client_id = client_id,
                                !.case_type = case_type], ServerError)
    /\ UNCHANGED <<lawyers, case_requests, now, emitted>>
    /\ UNCHANGED <<sockets, ledger>>

\* the candidate SELECT raises, after the INSERT was committed
DispatchSelectFails(c) ==
    /\ task[c].pc = "d_select"
    /\ Finish(c, task[c], ServerError)
    /\ UNCHANGED <<lawyers, case_requests, case_seq, now, emitted>>
    /\ UNCHANGED <<sockets, ledger>>

\* get_db_connection or the lawyers lookup raises
AcceptLookupFails(c, request_id, lawyer_user_id) ==
    /\ CanStart(c)
    /\ AcceptValid(lawyer_user_id)
    /\ Finish(c, [NoTask EXCEPT !.op = "accept", !.request_id = request_id,
                                !.lawyer_user_id = lawyer_user_id], ServerError)
    /\ UNCHANGED <<lawyers, case_requests, case_seq, now, emitted>>
    /\ UNCHANGED <<sockets, ledger>>

\* the UPDATE or its commit raises: the UPDATE is not committed
AcceptUpdateFails(c) ==
    /\ task[c].pc = "a_update"
    /\ Finish(c, task[c], ServerError)
    /\ UNCHANGED <<lawyers, case_requests, case_seq, now, emitted>>
    /\ UNCHANGED <<sockets, ledger>>

\* ------------------------------------------------------- mpesa_webhook
\* the request bodies the gateway, or anybody else, posts
WebhookBodies ==
    {"{\"a\":1}", "{\"a\": 1}", "null", "NaN", "not json", ""}

\* json.loads on the bodies above: ok is FALSE where it raises
JsonLoads(raw) ==
    CASE raw \in {"{\"a\":1}", "{\"a\": 1}"} -> [ok |-> TRUE, value |-> JObj(1)]
      [] raw = "null" -> [ok |-> TRUE, value |-> JNull]
      [] raw = "NaN" -> [ok |-> TRUE, value |-> JNaN]
      [] OTHER -> [ok |-> FALSE, value |-> JNull]

\* request.get_json(silent=True): None where the body does not parse
GetJsonSilent(raw) == IF JsonLoads(raw).ok THEN JsonLoads(raw).value ELSE JNull

\* json.dumps with its default separators and allow_nan
JsonDumps(v) ==
    CASE v.kind = "null" -> "null"
      [] v.kind = "int" -> ToString(v.n)
      [] v.kind = "str" -> "\"" \o v.s \o "\""
      [] v.kind = "obj" -> "{\"a\": " \o ToString(v.n) \o "}"
      [] OTHER -> "NaN"

\* the input function of the column type JSONB: the token NaN is not JSON
JsonbAccepts(text) == text # "NaN"

\* a JSONB value as the column gives it back
JsonbText(text) == JsonDumps(JsonLoads(text).value)

\* data = request.get_json(silent=True)
MpesaWebhook(c, raw) ==
    /\ CanStart(c)
    /\ task' = [task EXCEPT ![c] = [NoTask EXCEPT !.op = "webhook", !.pc = "w_insert",
                                                  !.raw = raw,
                                                  !.data = GetJsonSilent(raw)]]
    /\ UNCHANGED <<lawyers, case_requests, case_seq, now, response, emitted>>
    /\ UNCHANGED <<sockets, ledger>>

\* a variant of the INSERT that also credits the first wallet
WebhookInsert_Credit(c) ==
    /\ task[c].pc = "w_insert"
    /\ mpesa_webhooks' = Append(mpesa_webhooks,
                                [payload |-> JsonbText(JsonDumps(task[c].data)), by |-> c])
    /\ wallets' = [wallets EXCEPT ![1].balance = @ + 1]
    /\ task' = [task EXCEPT ![c].pc = "w_return"]
    /\ UNCHANGED <<lawyers, case_requests, case_seq, now, response, emitted>>
    /\ UNCHANGED <<sockets, transactions, ratings>>

\* INSERT INTO mpesa_webhooks (payload) VALUES (json.dumps(data)); commit.
\* A text the column rejects raises out of the handler: Flask answers 500.
WebhookInsert(c) ==
    /\ task[c].pc = "w_insert"
    /\ LET text == JsonDumps(task[c].data)
       IN IF JsonbAccepts(text)
          THEN /\ mpesa_webhooks' = Append(mpesa_webhooks,
                                           [payload |-> JsonbText(text), by |-> c])
               /\ task' = [task EXCEPT ![c].pc = "w_return"]
               /\ UNCHANGED response
          ELSE /\ mpesa_webhooks' = mpesa_webhooks
               /\ Finish(c, task[c], ErrorResponse(500, "Internal Server Error"))
    /\ UNCHANGED <<lawyers, case_requests, case_seq, now, emitted>>
    /\ UNCHANGED <<sockets, wallets, transactions, ratings>>

\* return jsonify({'ResultCode': 0, 'ResultDesc': 'Accepted'})
WebhookReturn(c) ==
    /\ task[c].pc = "w_return"
    /\ Finish(c, task[c], [NoResponse EXCEPT !.code = 200, !.result_code = 0,
                                              !.result_desc = "Accepted"])
    /\ UNCHANGED <<lawyers, case_requests, case_seq, now, emitted>>
    /\ UNCHANGED <<sockets, ledger>>

\* ------------------------------------------------------------------- Next
Next ==
    \/ \E c \in Calls, b \in DispatchBodies :
          DispatchRequest(c, b.client_id, b.case_type)
    \/ \E c \in Calls : DispatchSelect(c)
    \/ \E c \in Calls : DispatchEmit(c)
    \/ \E c \in Calls : DispatchReturn(c)
    \/ \E c \in Calls, r \in RequestIds, u \in LawyerUserIds : AcceptOffer(c, r, u)
    \/ \E c \in Calls : AcceptUpdate(c)
    \/ \E c \in Calls : AcceptNotify(c)

Spec == Init /\ [][Next]_vars

\* dispatch_request calls alone, in a process that may die
NextDispatch ==
    \/ \E c \in Calls, b \in DispatchBodies :
          DispatchRequest(c, b.client_id, b.case_type)
    \/ \E c \in Calls : DispatchSelect(c)
    \/ \E c \in Calls : DispatchEmit(c)
    \/ \E c \in Calls : DispatchReturn(c)
    \/ Crash

SpecDispatch == Init /\ [][NextDispatch]_vars

NextRank ==
    \/ \E id \in 1..MaxToggle, b \in BOOLEAN : SetStatus(id, b)
    \/ \E c \in RankCalls, b \in DispatchBodies :
          DispatchRequest(c, b.client_id, b.case_type)
    \/ \E c \in RankCalls : DispatchSelect(c)
    \/ \E c \in RankCalls : DispatchEmit(c)
    \/ \E c \in RankCalls : DispatchReturn(c)

SpecRank == InitRank /\ [][NextRank]_vars

\* one HTTP call beside the Socket.IO connections
NextRooms ==
    \/ \E s \in Conns : Connect(s)
    \/ \E s \in Conns, data \in IdentifyData : Identify(s, data)
    \/ \E s \in Conns : Disconnect(s)
    \/ \E c \in RoomCalls, b \in DispatchBodies :
          DispatchRequest(c, b.client_id, b.case_type)
    \/ \E c \in RoomCalls : DispatchSelect(c)
    \/ \E c \in RoomCalls : DispatchEmit(c)
    \/ \E c \in RoomCalls : DispatchReturn(c)
    \/ \E c \in RoomCalls, request_id \in RequestIds, lawyer_user_id \in LawyerUserIds :
          AcceptOffer(c, request_id, lawyer_user_id)
    \/ \E c \in RoomCalls : AcceptUpdate(c)
    \/ \E c \in RoomCalls : AcceptNotify(c)

SpecRooms == InitRooms /\ [][NextRooms]_vars

\* the dispatch and accept calls over a storage that may fail
NextFail ==
    \/ \E c \in Calls, b \in DispatchBodies :
          DispatchRequest(c, b.client_id, b.case_type)
    \/ \E c \in Calls : DispatchSelect(c)
    \/ \E c \in Calls : DispatchEmit(c)
    \/ \E c \in Calls : DispatchReturn(c)
    \/ \E c \in Calls, r \in RequestIds, u \in LawyerUserIds : AcceptOffer(c, r, u)
    \/ \E c \in Calls : AcceptUpdate(c)
    \/ \E c \in Calls : AcceptNotify(c)
    \/ \E c \in Calls, b \in DispatchBodies :
          DispatchInsertFails(c, b.client_id, b.case_type)
    \/ \E c \in Calls : DispatchSelectFails(c)
    \/ \E c \in Calls, request_id \in RequestIds, lawyer_user_id \in LawyerUserIds :
          AcceptLookupFails(c, request_id, lawyer_user_id)
    \/ \E c \in Calls : AcceptUpdateFails(c)

SpecFail == Init /\ [][NextFail]_vars

\* the webhook calls
NextHook ==
    \/ \E c \in Calls, raw \in WebhookBodies : MpesaWebhook(c, raw)
    \/ \E c \in Calls : WebhookInsert(c)
    \/ \E c \in Calls : WebhookReturn(c)

SpecHook == Init /\ [][NextHook]_vars

\* ============================================================ properties
IsAccept(c) == task[c].op = "accept"
IsDispatch(c) == task[c].op = "dispatch"
Done(c) == task[c].pc = "done"
\* the call returned the success body {'status': 'accepted', ...}
Succeeded(c) == IsAccept(c) /\ Done(c) /\ response[c].code = 200
                  /\ response[c].status = "accepted"

\* C1: of the accept_offer calls of distinct providers on one request_id, at
\* most one returns the success response.
C1_AtMostOneAccepted ==
    \A c, d \in Calls :
        (/\ Succeeded(c) /\ Succeeded(d)
         /\ task[c].request_id \in DOMAIN case_requests
         /\ task[c].request_id = task[d].request_id
         /\ task[c].lawyer_user_id # task[d].lawyer_user_id) => FALSE

\* C2: a case whose status is no longer searching keeps its status and its
\* assigned_lawyer in every step.
C2_AssignmentFinal ==
    [][\A id \in DOMAIN case_requests :
          case_requests[id].status # "searching"
             => /\ case_requests'[id].status = case_requests[id].status
                /\ case_requests'[id].assigned_lawyer = case_requests[id].assigned_lawyer]_vars

\* C3: an accept_offer call whose UPDATE found the case already accepted by
\* another provider does not return the success response.
C3_LoserRejected ==
    \A c \in Calls :
        (/\ IsAccept(c) /\ Done(c)
         /\ task[c].old_status = "accepted"
         /\ task[c].old_assigned # task[c].lawyer_id) => ~Succeeded(c)

C4_Witness == \E id \in DOMAIN case_requests : case_requests[id].assigned_lawyer # NULL

\* the UPDATE of call c matched a row and was committed
Updated(c) == IsAccept(c) /\ task[c].pc \in {"a_notify", "done", "crashed"}
                 /\ task[c].res # NULL

\* C4: a searching case has no assigned provider; an assigned provider means
\* status accepted, the id of an existing lawyers row, and an accept_offer
\* call for that case and provider whose UPDATE was committed.
C4_AssignedOnlyByAccept ==
    \A id \in DOMAIN case_requests :
        LET row == case_requests[id]
        IN  /\ row.status = "searching" => row.assigned_lawyer = NULL
            /\ row.assigned_lawyer # NULL =>
                  /\ row.status = "accepted"
                  /\ row.assigned_lawyer \in DOMAIN lawyers
                  /\ \E c \in Calls : /\ Updated(c)
                                       /\ task[c].request_id = id
                                       /\ task[c].lawyer_id = row.assigned_lawyer

\* the step in which call c starts
Starts(c) == task[c].pc = "idle" /\ task'[c].pc # "idle"

DurableUnchanged ==
    /\ case_requests' = case_requests
    /\ case_seq' = case_seq
    /\ lawyers' = lawyers

EmittedBy(c, em) == {e \in em : e.by = c}

C5_Witness ==
    \E c \in Calls : /\ IsAccept(c) /\ Done(c) /\ response[c].code = 404
                     /\ task[c].request_id \in DOMAIN case_requests

\* C5: an accept_offer call whose lawyer_user_id matches no lawyers row
\* returns 404 in the step that starts it, changes no relation and emits
\* nothing.
C5_UnknownProvider ==
    [][\A c \in Calls :
          (/\ Starts(c) /\ task'[c].op = "accept"
           /\ task'[c].lawyer_user_id \notin {NULL, 0}
           /\ \A i \in DOMAIN lawyers :
                 lawyers[i].user_id # task'[c].lawyer_user_id)
          => /\ task'[c].pc = "done"
             /\ response'[c].code = 404
             /\ response'[c].status # "accepted"
             /\ DurableUnchanged
             /\ emitted' = emitted
             /\ EmittedBy(c, emitted') = {}]_vars

C6_Witness ==
    \E c, d \in Calls :
        /\ IsDispatch(c) /\ Done(c) /\ response[c].code = 400
        /\ IsAccept(d) /\ Done(d) /\ response[d].code = 400

\* C6: a dispatch_request call without client_id or without case_type, and
\* an accept_offer call without lawyer_user_id, return 400 in the step that
\* starts them, change no relation and emit nothing.
C6_MissingField ==
    [][\A c \in Calls :
          (/\ Starts(c)
           /\ \/ /\ task'[c].op = "dispatch"
                 /\ (task'[c].client_id = NULL \/ task'[c].case_type = "")
              \/ /\ task'[c].op = "accept"
                 /\ task'[c].lawyer_user_id = NULL)
          => /\ task'[c].pc = "done"
             /\ response'[c].code = 400
             /\ DurableUnchanged
             /\ emitted' = emitted
             /\ EmittedBy(c, emitted') = {}]_vars

CaseOffers == {e \in emitted : e.event = "case_offer"}

C7_Witness ==
    \E c \in Calls :
        /\ IsDispatch(c) /\ task[c].pc = "crashed"
        /\ \E e \in CaseOffers : e.by = c

C7_OfferedIsCommitted ==
    \A e \in CaseOffers :
        /\ e.payload.request_id \in DOMAIN case_requests
        /\ case_requests[e.payload.request_id].user_id = e.payload.client_id

C7_RowsStay ==
    \A id \in DOMAIN case_requests : id \in DOMAIN case_requests'

\* C7: every emitted case_offer names a committed case row of the client it
\* carries, and no step, a crash included, removes a committed case row.
C7_PersistBeforeOffer == []C7_OfferedIsCommitted /\ [][C7_RowsStay]_vars

C8_Witness ==
    \E c \in Calls :
        /\ IsDispatch(c) /\ Done(c) /\ response[c].code = 200
        /\ response[c].offered = <<>>
        /\ \A i \in DOMAIN lawyers : ~lawyers[i].is_online

\* C8: a valid dispatch_request commits its row with status searching and no
\* assigned provider; when its query runs while no lawyer is online the
\* candidate list is empty; and with an empty candidate list it emits
\* nothing and returns 200 with offered = [] and the id of its committed row.
C8_NoProviderOnline ==
    [][\A c \in Calls :
          /\ (Starts(c) /\ task'[c].op = "dispatch" /\ task'[c].pc # "done")
             => /\ task'[c].req_id \in DOMAIN case_requests' \ DOMAIN case_requests
                /\ case_requests'[task'[c].req_id].status = "searching"
                /\ case_requests'[task'[c].req_id].assigned_lawyer = NULL
          /\ (/\ task[c].pc = "d_select" /\ task'[c].pc = "d_emit"
              /\ \A i \in DOMAIN lawyers : ~lawyers[i].is_online)
             => task'[c].candidates = <<>>
          /\ (/\ task[c].pc = "d_emit" /\ task[c].candidates = <<>>
              /\ task'[c].pc # "crashed")
             => /\ task'[c].pc \in {"d_emit", "done"}
                /\ EmittedBy(c, emitted') = {}
                /\ task'[c].pc = "done" =>
                      /\ response'[c].code = 200
                      /\ response'[c].offered = <<>>
                      /\ response'[c].request_id = task[c].req_id
                      /\ task[c].req_id \in DOMAIN case_requests']_vars

\* the step in which call c runs its candidate query
Selects(c) == task[c].pc = "d_select" /\ task'[c].pc = "d_emit"

OnlineNow == {i \in DOMAIN lawyers : lawyers[i].is_online = TRUE}

CandidateIds(cand) == {cand[k].id : k \in 1..Len(cand)}

\* rating a is not strictly higher than rating b; no rating (NULL) is lowest
NotHigher(a, b) == a = NULL \/ (b # NULL /\ a <= b)

C9_Witness ==
    \E c \in Calls :
        LET cand == task[c].candidates
        IN  /\ task[c].pc = "d_emit"
            /\ Len(cand) = TopK
            /\ Cardinality(OnlineNow) > TopK
            /\ \E i \in DOMAIN lawyers : ~lawyers[i].is_online /\ i \notin CandidateIds(cand)
            /\ \E k \in 1..Len(cand) : lawyers[cand[k].id].last_active > 1

\* C9: the candidate list of a dispatch_request holds min(10, number of
\* online lawyers) distinct lawyers, all online when the query runs, with
\* their current rating, in descending order of rating (no rating last), and
\* no online lawyer left out has a strictly higher rating than one included.
C9_TopKByRating ==
    [][\A c \in Calls :
          Selects(c) =>
            LET cand == task'[c].candidates
                ids == CandidateIds(cand)
                n == Cardinality(OnlineNow)
            IN  /\ Len(cand) <= 10
                /\ Len(cand) = IF n < 10 THEN n ELSE 10
                /\ ids \subseteq OnlineNow
                /\ Cardinality(ids) = Len(cand)
                /\ \A k \in 1..Len(cand) :
                      /\ cand[k].rating = lawyers[cand[k].id].rating
                      /\ cand[k].user_id = lawyers[cand[k].id].user_id
                /\ \A j, k \in 1..Len(cand) :
                      j < k => NotHigher(cand[k].rating, cand[j].rating)
                /\ \A i \in OnlineNow \ ids : \A k \in 1..Len(cand) :
                      NotHigher(lawyers[i].rating, cand[k].rating)]_vars

\* C10: of two online lawyers of equal rating the one active more recently
\* comes first in the candidate list, and is the one kept when the limit
\* leaves the other out.
C10_TieBreakLastActive ==
    [][\A c \in Calls :
          Selects(c) =>
            LET cand == task'[c].candidates
                ids == CandidateIds(cand)
            IN  /\ \A j, k \in 1..Len(cand) :
                      (j < k /\ cand[j].rating = cand[k].rating)
                         => lawyers[cand[j].id].last_active
                               >= lawyers[cand[k].id].last_active
                /\ \A i \in OnlineNow \ ids : \A k \in 1..Len(cand) :
                      lawyers[i].rating = cand[k].rating
                         => lawyers[i].last_active
                               <= lawyers[cand[k].id].last_active]_vars


\* ---------------------------------------------------- offers and rooms
\* the identify value v names the user u: the integer u or its decimal string
IdentifiesAs(v, u) == u # NULL /\ (v = JInt(u) \/ v = JStr(ToString(u)))

\* connection s has identified as a lawyer with the user_id of a candidate
IdentifiedAsCandidate(s, cand) ==
    \E d \in sockets[s].ident, k \in 1..Len(cand) :
        d.role = "lawyer" /\ IdentifiesAs(d.user_id, cand[k].user_id)

\* C11: the step of dispatch_request that emits to candidate k emits one
\* case_offer, to the room lawyer_<user_id> of that candidate, and every
\* connection it reaches has identified as a lawyer with the user_id of a
\* provider in the candidate list of that request.
C11_OffersAddressed ==
    [][\A c \in Calls :
          (task[c].pc = "d_emit" /\ Len(task'[c].offered) = Len(task[c].offered) + 1)
          => LET k == Len(task'[c].offered)
                 new == emitted' \ emitted
             IN /\ Cardinality(new) = 1
                /\ \A e \in new :
                      /\ e.event = "case_offer"
                      /\ e.room = LAWYER_ROOM_PREFIX \o PyStr(task[c].candidates[k].user_id)
                      /\ \A s \in e.to : IdentifiedAsCandidate(s, task[c].candidates)]_vars


\* ------------------------------------------------------------ the webhook
IsWebhook(c) == task[c].op = "webhook"

AuditRowsOf(c) == {i \in DOMAIN mpesa_webhooks : mpesa_webhooks[i].by = c}

\* C12: every webhook call that has returned got the success acknowledgment
\* and had appended exactly one row to mpesa_webhooks by then, whatever the
\* payload.
C12_AlwaysAcked ==
    \A c \in Calls :
        (IsWebhook(c) /\ Done(c))
        => /\ response[c].code = 200
           /\ response[c].result_code = 0
           /\ Cardinality(AuditRowsOf(c)) = 1


\* C13: every audit row holds the body its call received, character for
\* character, and the rows of two calls that received different bodies hold
\* different values.
C13_StoredVerbatim ==
    /\ \A i \in DOMAIN mpesa_webhooks :
          mpesa_webhooks[i].payload = task[mpesa_webhooks[i].by].raw
    /\ \A i, j \in DOMAIN mpesa_webhooks :
          task[mpesa_webhooks[i].by].raw # task[mpesa_webhooks[j].by].raw
             => mpesa_webhooks[i].payload # mpesa_webhooks[j].payload


\* ------------------------------------------------------ the client channel
\* the open connections that identified as the client with user_id u
IdentifiedAsClient(u) ==
    {s \in Conns : /\ sockets[s].status = "open"
                   /\ \E d \in sockets[s].ident :
                         d.role = "client" /\ IdentifiesAs(d.user_id, u)}

C14_Joined ==
    \A s \in Conns : \A d \in sockets[s].ident :
        (sockets[s].status = "open" /\ d.role = "client" /\ JTruthy(d.user_id))
        => (CLIENT_ROOM_PREFIX \o JFormat(d.user_id)) \in sockets[s].rooms

C14_Notified ==
    \A c \in Calls :
        (task[c].pc = "a_notify" /\ task'[c].pc = "done" /\ Truthy(task[c].res))
        => \E e \in emitted' :
              /\ e.event = "offer_accepted" /\ e.by = c
              /\ IdentifiedAsClient(task[c].res) \subseteq e.to

\* C14: an open connection that identified with role client and user_id u
\* is a member of the room client_<u>, and the offer_accepted that a
\* successful accept of a case of u emits reaches every such connection.
C14_ClientChannel == []C14_Joined /\ [][C14_Notified]_vars


\* ----------------------------------------------------------- unknown case
\* C15: an accept_offer call of an existing provider whose request_id
\* matched no case row has returned 404 and not the success body, and the
\* step that ran its UPDATE changed no relation.
C15_UnknownCase ==
    /\ [](\A c \in Calls :
            (IsAccept(c) /\ Done(c) /\ task[c].lawyer_id # NULL /\ task[c].res = NULL)
            => response[c].code = 404 /\ response[c].status # "accepted")
    /\ [][\A c \in Calls :
            (/\ task[c].pc = "a_update" /\ task'[c].pc = "a_notify"
             /\ task[c].request_id \notin DOMAIN case_requests)
            => DurableUnchanged]_vars


\* ------------------------------------------------------- storage failures
\* the step in which call c returns a server error
Fails(c) == task[c].pc # "done" /\ task'[c].pc = "done" /\ response'[c].code = 500

\* C16: a dispatch_request call that returned a server error has left no
\* case row behind, and the step in which a dispatch_request or accept_offer
\* call returns a server error changes no case row and no lawyer row.
C16_NoPartialWrite ==
    /\ [](\A c \in Calls :
            (IsDispatch(c) /\ Done(c) /\ response[c].code = 500)
            => task[c].req_id \notin DOMAIN case_requests)
    /\ [][\A c \in Calls :
            Fails(c) => case_requests' = case_requests /\ lawyers' = lawyers]_vars


\* -------------------------------------------------------- offer_accepted
AcceptedEvents == {e \in emitted : e.event = "offer_accepted"}

\* C17: at most one offer_accepted is emitted per request_id, and in every
\* state from its emission on the case is committed as accepted with the
\* lawyer_id the notification carries as assigned_lawyer.
C17_OneNotification ==
    /\ \A e, f \in AcceptedEvents :
          e.payload.request_id = f.payload.request_id => e = f
    /\ \A e \in AcceptedEvents :
          /\ e.payload.request_id \in DOMAIN case_requests
          /\ case_requests[e.payload.request_id].status = "accepted"
          /\ case_requests[e.payload.request_id].assigned_lawyer = e.payload.lawyer_id


\* ------------------------------------------------- who may be assigned
\* the lawyers.id values in the offered list of dispatch call c
OfferedTo(c) == {task[c].offered[k].lawyer_id : k \in 1..Len(task[c].offered)}

\* C18 as stated: the assigned provider of a case that a dispatch_request
\* call created is in the offered list of that call.
C18_AssignedWasOffered ==
    \A c \in Calls :
        (/\ IsDispatch(c) /\ task[c].req_id \in DOMAIN case_requests
         /\ case_requests[task[c].req_id].assigned_lawyer # NULL)
        => case_requests[task[c].req_id].assigned_lawyer \in OfferedTo(c)

C18_Witness ==
    \E c, d \in Calls :
        /\ IsDispatch(c) /\ Done(c) /\ response[c].code = 200
        /\ Updated(d) /\ Done(d) /\ task[d].request_id = task[c].req_id
        /\ case_requests[task[c].req_id].assigned_lawyer = task[d].lawyer_id
        /\ task[d].lawyer_id \notin OfferedTo(c)

\* C18: the assigned provider of a case is the lawyers row whose user_id an
\* accept_offer call for that request_id named, whether or not the case was
\* offered to that provider.
C18_AssignedWasNamed ==
    \A id \in DOMAIN case_requests :
        case_requests[id].assigned_lawyer # NULL
        => \E d \in Calls :
              /\ Updated(d) /\ task[d].request_id = id
              /\ case_requests[id].assigned_lawyer \in DOMAIN lawyers
              /\ lawyers[case_requests[id].assigned_lawyer].user_id = task[d].lawyer_user_id


WebhookStep(c) == task'[c] # task[c] /\ task'[c].op = "webhook"

C20_Witness ==
    \E c, d \in Calls :
        /\ IsDispatch(c) /\ Done(c) /\ response[c].code = 200
        /\ Updated(d) /\ Done(d)
        /\ \E id \in DOMAIN case_requests :
              id # task[d].request_id /\ case_requests[id].status = "searching"

\* a step of call c of handler op
StepOf(c, op) == task'[c] # task[c] /\ task'[c].op = op

\* C20: the step of a valid dispatch_request that stores its case adds one
\* row under an id no case had, with status searching and no assigned
\* provider; no other step of dispatch_request changes a case; a step of
\* accept_offer changes no case other than the one its request_id names and
\* adds none; and none of these steps changes a lawyers row or an existing
\* case row.
C20_Frame ==
    [][\A c \in Calls :
          /\ StepOf(c, "dispatch") =>
                /\ lawyers' = lawyers
                /\ \A id \in DOMAIN case_requests :
                      id \in DOMAIN case_requests' /\ case_requests'[id] = case_requests[id]
                /\ IF Starts(c) /\ task'[c].pc # "done"
                   THEN /\ task'[c].req_id \notin DOMAIN case_requests
                        /\ DOMAIN case_requests' = DOMAIN case_requests \cup {task'[c].req_id}
                        /\ case_requests'[task'[c].req_id].status = "searching"
                        /\ case_requests'[task'[c].req_id].assigned_lawyer = NULL
                   ELSE DOMAIN case_requests' = DOMAIN case_requests
          /\ StepOf(c, "accept") =>
                /\ lawyers' = lawyers
                /\ DOMAIN case_requests' = DOMAIN case_requests
                /\ \A id \in DOMAIN case_requests :
                      id # task'[c].request_id => case_requests'[id] = case_requests[id]]_vars

====
